---- MODULE Spec2Model ----
(***************************************************************************)
(* Token lifecycle manager of src/core/token_handler.py:                   *)
(* DefaultTokenProvider, TokenManager and TokenFetcherPool.                *)
(*                                                                         *)
(* Time is an integer clock (time.time()).  A refresh is two steps: the    *)
(* should-refresh check together with the POST (no suspension point lies   *)
(* between lines 70 and 75), and the arrival of the response (line 78).    *)
(***************************************************************************)
EXTENDS Integers, Sequences, FiniteSets, TLC

\* ------------------------------------------------------------------ bounds
\* the clock runs from StartTime to StartTime + MaxElapsed
MaxElapsed == 3
\* nested _async_refresh_token frames before Python raises RecursionError
MaxRecursionDepth == 1
\* refreshes (blocking calls and tasks) that may be under way at the same time
MaxConcurrent == 2
\* operations the callers and the background tasks start in one run
MaxOps == 3

\* ------------------------------------------------- configuration (scaled)
\* handle_token_config.expiry_time
expiry_time == 2
\* handle_token_config.min_time_between_refreshes
min_time_between_refreshes == 1
\* handle_token_config.refresh_failure_attempts_threshold
refresh_failure_attempts_threshold == 2
\* handle_token_config.pool_size
pool_size == 1
\* handle_token_config.max_concurrent_refreshes: a field no code reads
max_concurrent_refreshes == 1
\* handle_token_config.max_retry (spec 9: a required configuration field)
max_retry == 1
\* time.time() when the pool is constructed: an epoch time, far above
\* min_time_between_refreshes, so that now - 0 > min_time_between_refreshes
StartTime == 3

\* Python's None, and the lru_cache miss marker
NoneVal == "<None>"
Unset == "<unset>"
\* hashlib.sha256(token.encode()).hexdigest(): one digest per token string
SHA256(tok) == "sha256(" \o tok \o ")"
\* the n-th token string the refresh endpoint issues: each one is new
ServerToken(n) == "t" \o ToString(n)

\* the pool's provider and the provider of an externally constructed manager
PoolProvider == 1
ForeignProvider == 2
Providers == {PoolProvider, ForeignProvider}
\* managers 1..pool_size are built by TokenFetcherPool.__init__
PoolManagers == 1..pool_size
ForeignManager == pool_size + 1
Managers == PoolManagers \cup {ForeignManager}

\* blocking calls and tasks that run a provider refresh, per manager
Kinds == {"get", "man", "bg", "rel", "bulk"}
CallIds == Kinds \X Managers

VARIABLES
  now,                      \* time.time()
  config,                   \* handle_token_config: default_token, backup_token, auto_switch_backup_on_failure
  constructed,              \* the managers that exist
  token_provider,           \* TokenManager._token_provider
  current_token,            \* DefaultTokenProvider._current_token
  token_expiry_time,        \* DefaultTokenProvider._token_expiry_time
  last_refresh_timestamp,   \* DefaultTokenProvider._last_refresh_timestamp
  refresh_failure_count,    \* DefaultTokenProvider._refresh_failure_count
  cached_current_token,     \* TokenManager._cached_current_token
  get_token_cache,          \* the lru_cache wrapped around TokenManager.get_token
  call,                     \* where each call or task stands: pc and recursion depth
  token_fetchers,           \* TokenFetcherPool._token_fetchers
  retry_count,              \* TokenFetcherPool._retry_count
  invalid,                  \* the managers whose attribute invalid is True
  task,                     \* the tasks of refresh_token_concurrently, per fetcher
  gather,                   \* refresh_token_concurrently awaits asyncio.gather
  issued,                   \* the tokens the refresh endpoint has issued so far
  signature_cache,          \* the lru_cache wrapped around DefaultTokenProvider.generate_signature
  work_queue_size,          \* _concurrent_refresh_executor._work_queue.qsize()
  ops,                      \* operations started so far
  exhausted,                \* observer: the managers a bulk refresh gave up on
  consecutive_failures,     \* observer: failed refresh attempts in a row, per provider
  out                       \* observer: what the last step handed to a caller, if anything

provVars == <<current_token, token_expiry_time, last_refresh_timestamp, refresh_failure_count>>
mgrVars == <<cached_current_token, get_token_cache>>
poolVars == <<token_fetchers, retry_count, invalid, task, gather, work_queue_size, exhausted>>
vars == <<now, config, constructed, token_provider, current_token, token_expiry_time, last_refresh_timestamp,
          refresh_failure_count, cached_current_token, get_token_cache, call,
          token_fetchers, retry_count, invalid, task, gather, work_queue_size,
          issued, signature_cache, exhausted, consecutive_failures, ops, out>>

\* Python truthiness of an optional string
Truthy(s) == s # NoneVal /\ s # ""

ProviderOf(m) == token_provider[m]

Idle == [pc |-> "idle", depth |-> 0]
\* an exception in place of a returned value
RaisedVal == "<raised>"
\* the step handed nothing to a caller and invoked no callback
NoOut == [op |-> "none", m |-> 0, val |-> NoneVal, path |-> "", cb |-> NoneVal]
\* get_token_fetcher's None
NoFetcher == 0

\* ------------------------------------------------------------ the provider

\* TokenManager.is_token_expired: reads the provider's expiry time
IsTokenExpired(m) ==
  IF token_expiry_time[ProviderOf(m)] # 0
    THEN now > token_expiry_time[ProviderOf(m)]
    ELSE TRUE

\* DefaultTokenProvider.is_token_expired (spec 4.1): the clock is past the
\* expiry, or no token has ever been obtained
ProviderIsTokenExpired(p) ==
  now > token_expiry_time[p] \/ current_token[p] = ""

\* _should_refresh_token with the configured interval left out
ShouldRefreshToken_NoInterval(p) ==
  ProviderIsTokenExpired(p) \/ (now - last_refresh_timestamp[p] > 0)

\* DefaultTokenProvider._should_refresh_token
ShouldRefreshToken(p) ==
  ProviderIsTokenExpired(p) \/ (now - last_refresh_timestamp[p] > min_time_between_refreshes)

\* _update_current_token with the expiry not counted from the clock
UpdateCurrentToken_NoClock(p, new_token) ==
  /\ current_token' = [current_token EXCEPT ![p] = new_token]
  /\ token_expiry_time' = [token_expiry_time EXCEPT ![p] = expiry_time]
  /\ last_refresh_timestamp' = [last_refresh_timestamp EXCEPT ![p] = now]
  /\ refresh_failure_count' = [refresh_failure_count EXCEPT ![p] = 0]

\* _update_current_token with the expiry time left as it was
UpdateCurrentToken_KeepExpiry(p, new_token) ==
  /\ current_token' = [current_token EXCEPT ![p] = new_token]
  /\ token_expiry_time' = token_expiry_time
  /\ last_refresh_timestamp' = [last_refresh_timestamp EXCEPT ![p] = now]
  /\ refresh_failure_count' = [refresh_failure_count EXCEPT ![p] = 0]

\* _update_current_token with the refresh timestamp left as it was
UpdateCurrentToken_NoTimestamp(p, new_token) ==
  /\ current_token' = [current_token EXCEPT ![p] = new_token]
  /\ token_expiry_time' = [token_expiry_time EXCEPT ![p] = now + expiry_time]
  /\ last_refresh_timestamp' = last_refresh_timestamp
  /\ refresh_failure_count' = [refresh_failure_count EXCEPT ![p] = 0]

\* DefaultTokenProvider._update_current_token
UpdateCurrentToken(p, new_token) ==
  /\ current_token' = [current_token EXCEPT ![p] = new_token]
  /\ token_expiry_time' = [token_expiry_time EXCEPT ![p] = now + expiry_time]
  /\ last_refresh_timestamp' = [last_refresh_timestamp EXCEPT ![p] = now]
  /\ refresh_failure_count' = [refresh_failure_count EXCEPT ![p] = 0]

\* DefaultTokenProvider._handle_error: logs the error and its kind, and
\* leaves the failure count as it is
HandleError(p) ==
  refresh_failure_count' = refresh_failure_count

\* the switch to the backup token in the except branch of _async_refresh_token
SwitchToBackup(p) ==
  /\ current_token' = [current_token EXCEPT ![p] = config.backup_token]
  /\ token_expiry_time' = [token_expiry_time EXCEPT ![p] = now + expiry_time]

\* that condition without the threshold and without the policy flag
BackupSwitchDue_NoPolicy(p) ==
  Truthy(config.backup_token)

\* the condition of that switch, read after _handle_error has run
BackupSwitchDue(p) ==
  /\ refresh_failure_count'[p] >= refresh_failure_attempts_threshold
  /\ config.auto_switch_backup_on_failure
  /\ Truthy(config.backup_token)

\* ------------------------------------------------------------- the manager

\* TokenManager.__init__: the cache starts as the provider's token, or None
InitialCache(tok) == IF tok = "" THEN NoneVal ELSE tok

\* TokenManager._backup_token
ManagerBackupToken(m) ==
  IF config.backup_token # NoneVal THEN config.backup_token ELSE ""

\* the outcome of a provider refresh as its caller sees it
Returned(v) == [ok |-> TRUE, val |-> v]
Raised == [ok |-> FALSE, val |-> NoneVal]

\* TokenManager._on_token_updated is set: the pool builds its managers
\* without a callback, the manager built outside the pool registers one
on_token_updated(m) == m = ForeignManager

\* the callback with every result but the failed one passed to it
Notify_OnFailure(m, res) ==
  IF on_token_updated(m)
    THEN (IF res.ok /\ Truthy(res.val) THEN res.val ELSE RaisedVal)
    ELSE NoneVal

\* the argument _on_token_updated is invoked with after a refresh through
\* manager m came back, None when it is not invoked: "if new_token and
\* self._on_token_updated"; an exception skips the statement
Notify(m, res) ==
  IF res.ok /\ Truthy(res.val) /\ on_token_updated(m) THEN res.val ELSE NoneVal

\* get_token of manager m hands v to its caller, by one of its paths:
\* "lru_cache" (a repeated call, the body does not run), "cached" (the body
\* returns the cache without a refresh), "refreshed" (the provider's refresh
\* returned), "backup" (the refresh raised and the backup token was taken),
\* "failed" (the refresh raised and there is no backup token)
GetTokenOut(m, v, path) ==
  [op |-> "get_token", m |-> m, val |-> v, path |-> path, cb |-> NoneVal]

\* the result or the exception of an operation on manager m
ResultOut(op, m, res) ==
  [op |-> op, m |-> m, val |-> IF res.ok THEN res.val ELSE RaisedVal, path |-> "",
   cb |-> Notify(m, res)]

\* TokenManager.get_token after provider.refresh_token() came back: the
\* result is cached; on an exception the backup token, when there is one,
\* is cached; the cache is returned and lru_cache keeps the returned value
GetTokenAfterRefresh(m, res) ==
  LET got == IF res.ok THEN res.val
             ELSE IF Truthy(ManagerBackupToken(m)) THEN ManagerBackupToken(m)
             ELSE cached_current_token[m]
  IN /\ cached_current_token' = [cached_current_token EXCEPT ![m] = got]
     /\ get_token_cache' = [get_token_cache EXCEPT ![m] = got]
     /\ out' = GetTokenOut(m, got, IF res.ok THEN "refreshed"
                                    ELSE IF Truthy(ManagerBackupToken(m)) THEN "backup"
                                    ELSE "failed")
     /\ UNCHANGED <<token_fetchers, invalid, task, exhausted>>

\* TokenManager.refresh_token after provider.refresh_token() came back: the
\* new token is returned; an exception goes on to the caller
RefreshTokenAfterRefresh(m, res) ==
  /\ out' = ResultOut("refresh_token", m, res)
  /\ UNCHANGED <<mgrVars, token_fetchers, invalid, task, exhausted>>

\* TokenManager._auto_refresh_token after the awaited refresh came back: a
\* new token is cached; an exception is logged; then the task sleeps
AutoRefreshAfterRefresh(m, res) ==
  /\ cached_current_token' =
       IF res.ok /\ Truthy(res.val)
         THEN [cached_current_token EXCEPT ![m] = res.val]
         ELSE cached_current_token
  /\ out' = [NoOut EXCEPT !.cb = Notify(m, res)]
  /\ UNCHANGED <<get_token_cache, token_fetchers, invalid, task, exhausted>>

\* TokenFetcherPool.release_token_fetcher after fetcher.refresh_token() came
\* back: an exception is logged, and the fetcher is appended either way
ReleaseAfterRefresh(m, res) ==
  /\ token_fetchers' = Append(token_fetchers, m)
  /\ out' = [op |-> "release_token_fetcher", m |-> m, val |-> NoneVal, path |-> "refreshed",
             cb |-> Notify(m, res)]
  /\ UNCHANGED <<mgrVars, invalid, task, exhausted>>

\* TokenFetcherPool._async_refresh_token after fetcher.refresh_token() came
\* back.  First attempt: the result ends the task; an exception marks the
\* fetcher invalid, and the task sleeps for the retry delay when
\* _retry_count < _max_retry and ends with None otherwise.  Second attempt
\* (line 296, outside the try): the result ends the task, an exception
\* leaves the task.
BulkTaskAfterRefresh(m, res) ==
  LET first == task[m] \in {"ready", "first"}
      end == IF res.ok THEN "ok"
             ELSE IF ~first THEN "raised"
             ELSE IF retry_count < max_retry THEN "sleep"
             ELSE "gave_up"
  IN /\ task' = [task EXCEPT ![m] = IF ~gather /\ end # "sleep" THEN "none" ELSE end]
     /\ invalid' = IF first /\ ~res.ok THEN invalid \cup {m} ELSE invalid
     /\ exhausted' = IF end \in {"gave_up", "raised"} THEN exhausted \cup {m} ELSE exhausted
     /\ out' = [NoOut EXCEPT !.cb = Notify(m, res)]
     /\ UNCHANGED <<mgrVars, token_fetchers>>

\* DefaultTokenProvider.generate_signature, called after this step's writes
\* to the provider: lru_cache keeps the first digest computed for the
\* provider and answers every later call with it
GenerateSignature(p) ==
  IF signature_cache[p] = Unset THEN SHA256(current_token'[p]) ELSE signature_cache[p]

\* the end of a refresh with an exception of the awaited refresh ending the
\* polling task instead of being caught in its loop
Finish_TaskDies(c, res) ==
  /\ call' = [call EXCEPT ![c] = IF c[1] = "bg" /\ ~res.ok
                                   THEN [pc |-> "dead", depth |-> 0] ELSE Idle]
  /\ UNCHANGED signature_cache
  /\ CASE c[1] = "get" -> GetTokenAfterRefresh(c[2], res)
       [] c[1] = "man" -> RefreshTokenAfterRefresh(c[2], res)
       [] c[1] = "bg" -> AutoRefreshAfterRefresh(c[2], res)
       [] c[1] = "rel" -> ReleaseAfterRefresh(c[2], res)
       [] c[1] = "bulk" -> BulkTaskAfterRefresh(c[2], res)

\* the refresh of call c is over: its caller goes on with the result
Finish(c, res) ==
  /\ call' = [call EXCEPT ![c] = Idle]
  /\ UNCHANGED signature_cache
  /\ CASE c[1] = "get" -> GetTokenAfterRefresh(c[2], res)
       [] c[1] = "man" -> RefreshTokenAfterRefresh(c[2], res)
       [] c[1] = "bg" -> AutoRefreshAfterRefresh(c[2], res)
       [] c[1] = "rel" -> ReleaseAfterRefresh(c[2], res)
       [] c[1] = "bulk" -> BulkTaskAfterRefresh(c[2], res)

\* the POST of call c is under way: its caller waits
Await(c, d) ==
  /\ call' = [call EXCEPT ![c] = [pc |-> "inflight", depth |-> d]]
  /\ task' = IF c[1] = "bulk"
               THEN [task EXCEPT ![c[2]] = IF @ = "ready" THEN "first"
                                            ELSE IF @ = "sleep" THEN "second" ELSE @]
               ELSE task
  /\ signature_cache' =
       [signature_cache EXCEPT ![ProviderOf(c[2])] = GenerateSignature(ProviderOf(c[2]))]
  /\ out' = NoOut
  /\ UNCHANGED <<mgrVars, token_fetchers, invalid, exhausted>>

\* _async_refresh_token without the branch that returns the live token
Enter_NoShortCircuit(c, d) ==
  IF d > MaxRecursionDepth THEN Finish(c, Raised) ELSE Await(c, d)

\* DefaultTokenProvider._async_refresh_token entered at recursion depth d,
\* after this step's writes to the provider.  Past the recursion limit the
\* interpreter raises RecursionError, which no frame below catches (line 98
\* lies in the except branch).  Otherwise the should-refresh check decides
\* between the POST and the return of the live token.
Enter(c, d) ==
  LET p == ProviderOf(c[2])
  IN IF d > MaxRecursionDepth THEN Finish(c, Raised)
     ELSE IF ShouldRefreshToken(p)' THEN Await(c, d)
     ELSE Finish(c, Returned(current_token'[p]))

\* DefaultTokenProvider.refresh_token, the blocking variant (spec 4.1): the
\* caller's thread runs _async_refresh_token to its end
ProviderRefreshToken(c) == Enter(c, 0)

\* a POST leaves in this step
Posted(c) == call'[c].pc = "inflight" /\ call'[c] # call[c]

\* the calls and tasks with a refresh under way
Busy == {c \in CallIds : call[c].pc # "idle"}
\* TokenManager._token_lock is held by a get_token in progress
ManagerLockHeld(m) == call[<<"get", m>>].pc # "idle"
\* TokenFetcherPool._lock is held by a release_token_fetcher in progress, or
\* by refresh_token_concurrently while it awaits gather
PoolLockHeld == gather \/ \E m \in Managers : call[<<"rel", m>>].pc # "idle"
\* a task of the pool is inside the blocking fetcher.refresh_token(): the
\* event loop runs nothing else
LoopBlocked == \E m \in Managers : call[<<"bulk", m>>].pc # "idle"

\* one more operation starts
Start == ops < MaxOps /\ ops' = ops + 1

\* ThreadPoolExecutor(max_workers=max(2, pool_size // 2))
max_workers == IF pool_size \div 2 > 2 THEN pool_size \div 2 ELSE 2

\* TokenFetcherPool._can_refresh_concurrently
CanRefreshConcurrently == work_queue_size < max_workers * 2

\* the loop of get_token_fetcher without the is_token_expired() test
ScanFetchers_IgnoreExpiry(i) ==
  IF i > Len(token_fetchers) THEN NoFetcher ELSE token_fetchers[i]

\* the loop of TokenFetcherPool.get_token_fetcher, from index i on
RECURSIVE ScanFetchers(_)
ScanFetchers(i) ==
  IF i > Len(token_fetchers) THEN NoFetcher
  ELSE IF ~IsTokenExpired(token_fetchers[i]) THEN token_fetchers[i]
  ELSE ScanFetchers(i + 1)

\* the fetchers whose is_token_expired() that loop calls
Scanned ==
  {token_fetchers[i] : i \in {j \in 1..Len(token_fetchers) :
      \A k \in 1..(j - 1) : IsTokenExpired(token_fetchers[k])}}

\* ------------------------------------------------------------- the actions

Init ==
  /\ now = StartTime
  /\ config \in [default_token : {"", "d0"}, backup_token : {"", "bak"},
                  auto_switch_backup_on_failure : BOOLEAN]
  /\ constructed = PoolManagers
  /\ token_provider = [m \in Managers |-> IF m \in PoolManagers THEN PoolProvider ELSE ForeignProvider]
  /\ current_token = [p \in Providers |-> IF p = PoolProvider THEN config.default_token ELSE ""]
  /\ token_expiry_time = [p \in Providers |-> IF p = PoolProvider THEN now + expiry_time ELSE 0]
  /\ last_refresh_timestamp = [p \in Providers |-> 0]
  /\ refresh_failure_count = [p \in Providers |-> 0]
  /\ cached_current_token = [m \in Managers |-> InitialCache(current_token[ProviderOf(m)])]
  /\ get_token_cache = [m \in Managers |-> Unset]
  /\ call = [c \in CallIds |-> Idle]
  /\ token_fetchers = [i \in 1..pool_size |-> i]
  /\ retry_count = 0
  /\ invalid = {}
  /\ exhausted = {}
  /\ task = [m \in Managers |-> "none"]
  /\ gather = FALSE
  /\ work_queue_size = 0
  /\ issued = 0
  /\ signature_cache = [p \in Providers |-> Unset]
  /\ consecutive_failures = [p \in Providers |-> 0]
  /\ ops = 0
  /\ out = NoOut

\* time passes
Tick ==
  /\ now < StartTime + MaxElapsed
  /\ now' = now + 1
  /\ out' = NoOut
  /\ UNCHANGED <<config, constructed, token_provider, provVars, mgrVars, call, signature_cache, poolVars,
                 consecutive_failures, issued, ops>>

\* DefaultTokenProvider.__init__
NewProvider(p) ==
  /\ current_token' = [current_token EXCEPT ![p] = config.default_token]
  /\ token_expiry_time' = [token_expiry_time EXCEPT ![p] = now + expiry_time]
  /\ last_refresh_timestamp' = [last_refresh_timestamp EXCEPT ![p] = 0]
  /\ refresh_failure_count' = [refresh_failure_count EXCEPT ![p] = 0]

\* TokenManager(provider) is built outside the pool, on a provider of its
\* own or on the provider of the pool's managers
ConstructForeign(p) ==
  /\ ForeignManager \notin constructed
  /\ Start
  /\ constructed' = constructed \cup {ForeignManager}
  /\ token_provider' = [token_provider EXCEPT ![ForeignManager] = p]
  /\ IF p = ForeignProvider THEN NewProvider(p) ELSE UNCHANGED provVars
  /\ cached_current_token' =
       [cached_current_token EXCEPT ![ForeignManager] = InitialCache(current_token'[p])]
  /\ out' = NoOut
  /\ UNCHANGED <<now, config, get_token_cache, call, signature_cache, poolVars, consecutive_failures, issued>>

\* TokenManager.get_token is called.  lru_cache answers a repeated call
\* without running the body; the body refreshes when the cache is None or
\* the provider reports expiry, and returns the cache
GetToken(m) ==
  /\ m \in constructed
  /\ call[<<"get", m>>].pc = "idle"
  /\ Start
  /\ Cardinality(Busy) < MaxConcurrent
  /\ UNCHANGED <<now, config, constructed, token_provider, provVars, consecutive_failures, issued,
                 retry_count, gather, work_queue_size>>
  /\ IF get_token_cache[m] # Unset
       THEN /\ out' = GetTokenOut(m, get_token_cache[m], "lru_cache")
            /\ UNCHANGED <<mgrVars, call, signature_cache, token_fetchers, invalid, task, exhausted>>
       ELSE IF cached_current_token[m] = NoneVal \/ ProviderIsTokenExpired(ProviderOf(m))
         THEN ProviderRefreshToken(<<"get", m>>)
         ELSE /\ get_token_cache' = [get_token_cache EXCEPT ![m] = cached_current_token[m]]
              /\ out' = GetTokenOut(m, cached_current_token[m], "cached")
              /\ UNCHANGED <<cached_current_token, call, signature_cache, token_fetchers, invalid, task, exhausted>>

\* TokenManager.refresh_token (and manual_refresh_token) is called
RefreshToken(m) ==
  /\ m \in constructed
  /\ call[<<"man", m>>].pc = "idle"
  /\ Start
  /\ Cardinality(Busy) < MaxConcurrent
  /\ UNCHANGED <<now, config, constructed, token_provider, provVars, consecutive_failures, issued,
                 retry_count, gather, work_queue_size>>
  /\ ProviderRefreshToken(<<"man", m>>)

\* a round of _auto_refresh_token without the is_token_expired() test
AutoRefreshTick_NoExpiryTest(m) ==
  /\ m \in constructed
  /\ call[<<"bg", m>>].pc = "idle"
  /\ ~ManagerLockHeld(m)
  /\ ~LoopBlocked
  /\ UNCHANGED <<now, config, constructed, token_provider, provVars, consecutive_failures, issued,
                 retry_count, gather, work_queue_size>>
  /\ Cardinality(Busy) < MaxConcurrent /\ Start /\ Enter(<<"bg", m>>, 0)

\* one round of TokenManager._auto_refresh_token: the task wakes from its
\* sleep, and refreshes when is_token_expired()
AutoRefreshTick(m) ==
  /\ m \in constructed
  /\ call[<<"bg", m>>].pc = "idle"
  /\ ~ManagerLockHeld(m)
  /\ ~LoopBlocked
  /\ UNCHANGED <<now, config, constructed, token_provider, provVars, consecutive_failures, issued,
                 retry_count, gather, work_queue_size>>
  /\ IF IsTokenExpired(m)
       THEN Cardinality(Busy) < MaxConcurrent /\ Start /\ Enter(<<"bg", m>>, 0)
       ELSE out' = NoOut /\ UNCHANGED <<mgrVars, call, signature_cache, token_fetchers, invalid, task, exhausted, ops>>

\* the response of call c can be taken: a task of the event loop waits
\* while the loop is blocked by another task
CanRespond(c) ==
  /\ call[c].pc = "inflight"
  /\ c[1] = "bg" => ~LoopBlocked

\* the endpoint answers the POST of call c with a token: lines 78-85
ResponseToken(c) ==
  LET p == ProviderOf(c[2])
      tok == ServerToken(issued + 1)
  IN /\ CanRespond(c)
     /\ issued' = issued + 1
     /\ UNCHANGED <<now, config, constructed, token_provider, ops, retry_count, gather, work_queue_size>>
     /\ UpdateCurrentToken(p, tok)
     /\ consecutive_failures' = [consecutive_failures EXCEPT ![p] = 0]
     /\ Finish(c, Returned(tok))

\* the POST of call c fails (error field, no token keyword, timeout,
\* connection error): lines 89-98
ResponseError(c) ==
  LET p == ProviderOf(c[2])
  IN /\ CanRespond(c)
     /\ consecutive_failures' =
          [consecutive_failures EXCEPT ![p] =
             IF @ < refresh_failure_attempts_threshold THEN @ + 1 ELSE @]
     /\ HandleError(p)
     /\ IF BackupSwitchDue(p)
          THEN SwitchToBackup(p)
          ELSE UNCHANGED <<current_token, token_expiry_time>>
     /\ UNCHANGED <<now, config, constructed, token_provider, last_refresh_timestamp, ops, issued,
                    retry_count, gather, work_queue_size>>
     /\ Enter(c, call[c].depth + 1)

\* TokenFetcherPool.get_token_fetcher is called
GetTokenFetcher ==
  /\ ~PoolLockHeld
  /\ \A m \in Scanned : ~ManagerLockHeld(m)
  /\ out' = [op |-> "get_token_fetcher", m |-> ScanFetchers(1), val |-> NoneVal,
             path |-> "", cb |-> NoneVal]
  /\ UNCHANGED <<now, config, constructed, token_provider, provVars, mgrVars, call, signature_cache, poolVars,
                 consecutive_failures, issued, ops>>

\* release_token_fetcher without the test "fetcher in self._token_fetchers"
ReleaseTokenFetcher_NoMembershipTest(m) ==
  /\ m \in constructed
  /\ ~PoolLockHeld
  /\ Start
  /\ UNCHANGED <<now, config, constructed, token_provider, provVars, consecutive_failures, issued,
                 retry_count, gather, work_queue_size>>
  /\ Cardinality(Busy) < MaxConcurrent /\ ProviderRefreshToken(<<"rel", m>>)

\* TokenFetcherPool.release_token_fetcher(fetcher) is called
ReleaseTokenFetcher(m) ==
  /\ m \in constructed
  /\ ~PoolLockHeld
  /\ Start
  /\ UNCHANGED <<now, config, constructed, token_provider, provVars, consecutive_failures, issued,
                 retry_count, gather, work_queue_size>>
  /\ IF \E i \in 1..Len(token_fetchers) : token_fetchers[i] = m
       THEN /\ out' = [op |-> "release_token_fetcher", m |-> m, val |-> NoneVal,
                       path |-> "member", cb |-> NoneVal]
            /\ UNCHANGED <<mgrVars, call, signature_cache, token_fetchers, invalid, task, exhausted>>
       ELSE Cardinality(Busy) < MaxConcurrent /\ ProviderRefreshToken(<<"rel", m>>)

\* TokenFetcherPool.refresh_token_concurrently is called: when admitted, it
\* takes the pool lock, makes one task per fetcher and awaits gather
RefreshTokenConcurrently ==
  /\ ~gather
  /\ \A m \in Managers : task[m] = "none"
  /\ Start
  /\ IF CanRefreshConcurrently
       THEN /\ ~PoolLockHeld
            /\ gather' = TRUE
            /\ task' = [m \in Managers |->
                          IF \E i \in 1..Len(token_fetchers) : token_fetchers[i] = m
                            THEN "ready" ELSE "none"]
            /\ out' = NoOut
       ELSE /\ out' = [op |-> "refresh_token_concurrently", m |-> 0, val |-> NoneVal,
                       path |-> "refused", cb |-> NoneVal]
            /\ UNCHANGED <<gather, task>>
  /\ UNCHANGED <<now, config, constructed, token_provider, provVars, mgrVars, call, signature_cache, token_fetchers,
                 retry_count, invalid, exhausted, work_queue_size, consecutive_failures, issued>>

\* the event loop starts the next task of gather: fetcher.refresh_token()
StartTask(m) ==
  /\ task[m] = "ready"
  /\ \A i, j \in 1..Len(token_fetchers) :
       (token_fetchers[j] = m /\ i < j) => task[token_fetchers[i]] # "ready"
  /\ ~LoopBlocked
  /\ Cardinality(Busy) < MaxConcurrent
  /\ UNCHANGED <<now, config, constructed, token_provider, provVars, consecutive_failures, issued, ops,
                 retry_count, gather, work_queue_size>>
  /\ ProviderRefreshToken(<<"bulk", m>>)

\* a task wakes from the retry delay: lines 295-296
RetryTask(m) ==
  /\ task[m] = "sleep"
  /\ ~LoopBlocked
  /\ Cardinality(Busy) < MaxConcurrent
  /\ retry_count' = retry_count + 1
  /\ UNCHANGED <<now, config, constructed, token_provider, provVars, consecutive_failures, issued, ops,
                 gather, work_queue_size>>
  /\ ProviderRefreshToken(<<"bulk", m>>)

\* gather is over: every task has ended, or one has raised, and
\* refresh_token_concurrently leaves the with block
GatherDone ==
  /\ gather
  /\ ~LoopBlocked
  /\ \/ \E m \in Managers : task[m] = "raised"
     \/ \A m \in Managers : task[m] \in {"none", "ok", "gave_up"}
  /\ gather' = FALSE
  /\ out' = [op |-> "refresh_token_concurrently", m |-> 0,
             val |-> IF \E m \in Managers : task[m] = "raised" THEN RaisedVal ELSE NoneVal,
             path |-> "gathered", cb |-> NoneVal]
  /\ task' = [m \in Managers |-> IF task[m] \in {"ok", "gave_up", "raised"} THEN "none" ELSE task[m]]
  /\ UNCHANGED <<now, config, constructed, token_provider, provVars, mgrVars, call, signature_cache, token_fetchers,
                 retry_count, invalid, exhausted, work_queue_size, consecutive_failures, issued, ops>>

\* TokenFetcherPool.shutdown: ThreadPoolExecutor.shutdown(wait=True) puts its
\* wake-up item on the work queue and joins the worker threads, of which
\* there are none
Shutdown ==
  /\ Start
  /\ work_queue_size' = work_queue_size + 1
  /\ out' = NoOut
  /\ UNCHANGED <<now, config, constructed, token_provider, provVars, mgrVars, call, signature_cache, token_fetchers,
                 retry_count, invalid, exhausted, task, gather, consecutive_failures, issued>>

Next ==
  \/ Tick
  \/ \E p \in Providers : ConstructForeign(p)
  \/ \E m \in Managers : GetToken(m)
  \/ \E m \in Managers : RefreshToken(m)
  \/ \E m \in Managers : AutoRefreshTick(m)
  \/ \E c \in CallIds : ResponseToken(c)
  \/ \E c \in CallIds : ResponseError(c)
  \/ GetTokenFetcher
  \/ \E m \in Managers : ReleaseTokenFetcher(m)
  \/ RefreshTokenConcurrently
  \/ \E m \in Managers : StartTask(m)
  \/ \E m \in Managers : RetryTask(m)
  \/ GatherDone
  \/ Shutdown

Spec == Init /\ [][Next]_vars

\* ---------------------------------------------- the polling task, followed
\* for as long as it runs

\* one round of TokenManager._auto_refresh_token, as AutoRefreshTick, in a
\* run that does not limit the rounds of the polling task
AutoRefreshLoop(m) ==
  /\ m \in constructed
  /\ call[<<"bg", m>>].pc = "idle"
  /\ ~ManagerLockHeld(m)
  /\ ~LoopBlocked
  /\ UNCHANGED <<now, config, constructed, token_provider, provVars, consecutive_failures, issued,
                 retry_count, gather, work_queue_size, ops>>
  /\ IF IsTokenExpired(m)
       THEN Cardinality(Busy) < MaxConcurrent /\ Enter(<<"bg", m>>, 0)
       ELSE out' = NoOut /\ UNCHANGED <<mgrVars, call, signature_cache, token_fetchers, invalid, task, exhausted>>

\* the calls of that run: the polling tasks and the get_token calls beside them
LiveCalls == {"bg", "get"} \X Managers

LiveNext ==
  \/ Tick
  \/ \E p \in Providers : ConstructForeign(p)
  \/ \E m \in Managers : GetToken(m)
  \/ \E m \in Managers : AutoRefreshLoop(m)
  \/ \E c \in LiveCalls : ResponseToken(c)
  \/ \E c \in LiveCalls : ResponseError(c)

\* The event loop runs a polling task that is ready (asyncio.sleep ends);
\* every POST ends, with a response or by request_timeout; and the endpoint
\* recovers: a call that posts again and again is answered with a token in
\* the end
LiveSpec ==
  /\ Init /\ [][LiveNext]_vars
  /\ \A m \in Managers : WF_vars(AutoRefreshLoop(m))
  /\ \A c \in LiveCalls : WF_vars(ResponseToken(c) \/ ResponseError(c))
  /\ \A c \in LiveCalls : SF_vars(ResponseToken(c))

\* ------------------------------------------------------------------ claims

\* the provider's token is valid: not expired, and refreshed within
\* min_time_between_refreshes
TokenValid(p) ==
  /\ now <= token_expiry_time[p]
  /\ now - last_refresh_timestamp[p] <= min_time_between_refreshes

\* the response of call c arrives in this step and is a failure
ErrorResponse(c) ==
  call[c].pc = "inflight" /\ call'[c] # call[c] /\ issued' = issued

\* C1: every get_token call raises, or returns a non-empty token string that
\* is not expired at the moment of return
C1_GetTokenValidOrRaises ==
  out.op = "get_token" =>
    \/ out.val = RaisedVal
    \/ Truthy(out.val) /\ ~IsTokenExpired(out.m)

C3_FreshUntilExpiry ==
  \A m \in constructed :
    (/\ last_refresh_timestamp[ProviderOf(m)] # 0
     /\ now <= last_refresh_timestamp[ProviderOf(m)] + expiry_time) => ~IsTokenExpired(m)

\* a refresh succeeded, time has passed up to the expiry it set, and another
\* refresh has failed since
C3_Witness ==
  /\ last_refresh_timestamp[PoolProvider] # 0
  /\ now = last_refresh_timestamp[PoolProvider] + expiry_time
  /\ consecutive_failures[PoolProvider] > 0
  /\ ~IsTokenExpired(1)

\* C4: is_token_expired() is true when the clock is past the expiry time,
\* and when no token has ever been obtained
C4_ExpiredWithoutToken ==
  \A m \in constructed :
    /\ now > token_expiry_time[ProviderOf(m)] => IsTokenExpired(m)
    /\ (current_token[ProviderOf(m)] = "" /\ last_refresh_timestamp[ProviderOf(m)] = 0)
         => IsTokenExpired(m)

\* C5: a failed refresh attempt raises the provider's failure count by
\* exactly 1 and leaves the live token as it is
C5_FailureCounted ==
  [][\A c \in CallIds : ErrorResponse(c) =>
       /\ refresh_failure_count'[ProviderOf(c[2])] = refresh_failure_count[ProviderOf(c[2])] + 1
       /\ current_token'[ProviderOf(c[2])] = current_token[ProviderOf(c[2])]]_vars

\* C6: with auto_switch_backup_on_failure and a backup token, after
\* refresh_failure_attempts_threshold failures in a row the live token is
\* the backup token
C6_BackupAfterThreshold ==
  \A p \in Providers :
    (/\ config.auto_switch_backup_on_failure
     /\ Truthy(config.backup_token)
     /\ consecutive_failures[p] >= refresh_failure_attempts_threshold)
      => current_token[p] = config.backup_token

\* C7: when the provider's refresh fails inside get_token, the manager
\* returns its backup token if it has one, and the failure reaches the
\* caller as an error if it has none
C7_BackupOrError ==
  out.op = "get_token" =>
    /\ out.path = "backup" => out.val = ManagerBackupToken(out.m)
    /\ out.path = "failed" => out.val = RaisedVal

\* C8: a get_token that returns without an error in the provider's refresh
\* and without the manager's backup token returns the provider's live token
C8_ReturnsLiveToken ==
  (out.op = "get_token" /\ out.val # RaisedVal /\ out.path \notin {"backup", "failed"})
    => out.val = current_token[ProviderOf(out.m)]

\* the indices of the pool's fetchers that are not expired
Unexpired == {i \in 1..Len(token_fetchers) : ~IsTokenExpired(token_fetchers[i])}

\* C9: get_token_fetcher returns the first fetcher, in pool order, that is
\* not expired, returns None exactly when all are expired, and leaves the
\* pool as it is
C9_FirstUnexpired ==
  /\ [](out.op = "get_token_fetcher" =>
          /\ out.m = NoFetcher <=> Unexpired = {}
          /\ out.m # NoFetcher =>
               \E i \in Unexpired : /\ token_fetchers[i] = out.m
                                     /\ \A j \in Unexpired : i <= j)
  /\ [][out'.op = "get_token_fetcher" =>
          UNCHANGED <<token_fetchers, invalid, retry_count, task>>]_vars

\* the pool's own manager is expired and get_token_fetcher returns the
\* manager released into the pool behind it
C9_Witness ==
  /\ out.op = "get_token_fetcher" /\ out.m = ForeignManager
  /\ Len(token_fetchers) = 2 /\ token_fetchers[1] = 1
  /\ IsTokenExpired(1)

\* C10: get_token_fetcher never returns a manager that a bulk refresh has
\* marked invalid after its retries ran out
C10_InvalidNotReturned ==
  out.op = "get_token_fetcher" => ~(out.m \in invalid /\ out.m \in exhausted)

\* manager m is in the pool's collection
InPool(m) == \E i \in 1..Len(token_fetchers) : token_fetchers[i] = m

\* C11: release_token_fetcher of a manager outside the collection makes one
\* refresh call on it and appends it when that call is over, failed or not;
\* of a manager in the collection it refreshes nothing and leaves the
\* collection as it is; no manager is in the collection twice
C11_ReleaseRefreshesOnce ==
  /\ [](\A m \in Managers : call[<<"rel", m>>].pc # "idle" => ~InPool(m))
  /\ [](\A i, j \in 1..Len(token_fetchers) : token_fetchers[i] = token_fetchers[j] => i = j)
  /\ [][/\ token_fetchers' # token_fetchers =>
             (out'.op = "release_token_fetcher" /\ out'.path = "refreshed")
        /\ (out'.op = "release_token_fetcher" /\ out'.path = "refreshed") =>
             /\ ~InPool(out'.m)
             /\ token_fetchers' = Append(token_fetchers, out'.m)
             /\ call'[<<"rel", out'.m>>].pc = "idle"
             /\ call[<<"rel", out'.m>>].pc = "inflight" \/ ops' = ops + 1
        /\ (out'.op = "release_token_fetcher" /\ out'.path = "member") =>
             /\ InPool(out'.m)
             /\ UNCHANGED <<token_fetchers, call, provVars, issued>>
        /\ \A m \in Managers :
             (call[<<"rel", m>>].pc = "idle" /\ call'[<<"rel", m>>].pc # "idle") =>
               (ops' = ops + 1 /\ ~InPool(m))]_vars

\* the manager built outside the pool was released, its refresh failed, it
\* was appended, and it is released again
C11_Witness ==
  /\ out.op = "release_token_fetcher" /\ out.path = "member" /\ out.m = ForeignManager
  /\ token_fetchers = <<1, ForeignManager>>
  /\ consecutive_failures[ProviderOf(ForeignManager)] > 0

\* refresh_token_concurrently is admitted in this step
Admitted == gather' /\ ~gather

\* C12: refresh_token_concurrently is admitted only while the executor's
\* queued work plus the refreshes in flight are below
\* 2 * max_concurrent_refreshes; an admitted call makes a refresh task for
\* every manager of the pool; a refused call starts no refresh and returns
C12_AdmissionBudget ==
  [][/\ Admitted =>
          /\ work_queue_size + Cardinality(Busy) < 2 * max_concurrent_refreshes
          /\ \A m \in Managers : InPool(m) => task'[m] = "ready"
     /\ (out'.op = "refresh_token_concurrently" /\ out'.path = "refused") =>
          UNCHANGED <<call, task, gather, issued>>]_vars

\* C13: an admitted refresh_token_concurrently returns without an exception,
\* and when it returns every task it made has ended, whichever refreshes
\* and retries failed
C13_FailureIsolated ==
  (out.op = "refresh_token_concurrently" /\ out.path = "gathered") =>
    /\ out.val # RaisedVal
    /\ \A m \in Managers : task[m] = "none"

\* the refresh of call c raises to its caller in this step: the response is
\* a failure and the recursion limit is reached
RefreshRaised(c) ==
  /\ ErrorResponse(c)
  /\ call[c].depth = MaxRecursionDepth
  /\ call'[c].pc = "idle"

\* C14: a bulk refresh gives up on a manager only after max_retry retries
\* of that manager, in that bulk refresh, have failed; with max_retry = 1
\* that is: a failed attempt that no retry follows is the manager's own
\* second attempt
C14_OwnRetryAllowance ==
  [][\A m \in Managers :
       (RefreshRaised(<<"bulk", m>>) /\ task'[m] # "sleep") => task[m] = "second"]_vars

\* shutdown() has been called: only the executor's shutdown puts an item on
\* its work queue
ShutdownCalled == work_queue_size > 0

\* the refresh tasks of the event loop: the tasks of a bulk refresh and the
\* background polling tasks
TaskRunning ==
  \/ \E m \in Managers : task[m] # "none"
  \/ \E m \in Managers : call[<<"bg", m>>].pc # "idle" \/ call[<<"bulk", m>>].pc # "idle"

\* C15: once shutdown() has returned no refresh_token_concurrently is
\* admitted, and no refresh task or polling task is running or starts
C15_ShutdownStopsWork ==
  /\ [](ShutdownCalled => ~TaskRunning)
  /\ [][ShutdownCalled => ~Admitted]_vars

\* the kinds of call that go through TokenManager.refresh_token or the
\* background task
NotifyingKinds == {"man", "bg", "rel", "bulk"}

\* the response of call c arrives in this step, is a token, and ends the call
TokenResponse(c) ==
  call[c].pc = "inflight" /\ call'[c].pc = "idle" /\ issued' = issued + 1

\* C16: a refresh through a manager with a registered callback, manual or by
\* the background task, that succeeds invokes the callback, once, with the
\* new token; one that fails invokes no callback
C16_CallbackOnSuccess ==
  [][\A c \in CallIds :
       (c[1] \in NotifyingKinds /\ on_token_updated(c[2])) =>
         /\ TokenResponse(c) =>
              (out'.cb = ServerToken(issued') /\ out'.cb = current_token'[ProviderOf(c[2])])
         /\ RefreshRaised(c) => out'.cb = NoneVal]_vars

\* the background task of the manager built outside the pool refreshed, and
\* the callback got the new token
C16_Witness ==
  /\ out.cb = ServerToken(issued) /\ issued > 0
  /\ out.op = "none"
  /\ cached_current_token[ForeignManager] = out.cb
  /\ \A m \in Managers : task[m] = "none"
  /\ ~InPool(ForeignManager)

\* C17: while the POST of a call is in flight the manager's lock of that
\* call's manager and the pool's lock are free, and the pool's lock is free
\* while a task of a bulk refresh sleeps
C17_NoLockAcrossRefresh ==
  /\ \A c \in CallIds :
       call[c].pc = "inflight" => (~ManagerLockHeld(c[2]) /\ ~PoolLockHeld)
  /\ \A m \in Managers : task[m] = "sleep" => ~PoolLockHeld

\* C18: whatever refreshes on one provider overlap, the provider's token,
\* expiry time, refresh timestamp and failure count come from one write:
\* once a refresh has succeeded the expiry is the timestamp plus
\* expiry_time, the count is 0 and the token is one the endpoint issued;
\* and the token changes only to the token of the response that has just
\* arrived, so the last writer's token stays
C18_ConsistentAfterRace ==
  /\ [](\A p \in Providers : last_refresh_timestamp[p] # 0 =>
          /\ token_expiry_time[p] = last_refresh_timestamp[p] + expiry_time
          /\ refresh_failure_count[p] = 0
          /\ \E n \in 1..issued : current_token[p] = ServerToken(n))
  /\ [][\A p \in Providers :
          (current_token'[p] # current_token[p] /\ constructed' = constructed) =>
             (issued' = issued + 1 /\ current_token'[p] = ServerToken(issued'))]_vars

\* two calls on the pool's provider posted at one clock value, both
\* responses brought a token, and the second one's token is the live token
C18_Witness ==
  /\ issued = 2 /\ now = StartTime
  /\ ForeignManager \notin constructed
  /\ Busy = {}
  /\ current_token[PoolProvider] = ServerToken(2)
  /\ last_refresh_timestamp[PoolProvider] = now

\* C19: the step in which a response brings a token sets the provider's
\* token to it, the expiry time to now + expiry_time, the refresh timestamp
\* to now and the failure count to 0, all at once
C19_AtomicReplace ==
  [][\A c \in CallIds :
       (call[c].pc = "inflight" /\ call'[c] # call[c] /\ issued' = issued + 1) =>
         LET p == ProviderOf(c[2])
         IN /\ current_token'[p] = ServerToken(issued')
            /\ token_expiry_time'[p] = now' + expiry_time
            /\ last_refresh_timestamp'[p] = now'
            /\ refresh_failure_count'[p] = 0]_vars

\* after a tick of the clock refresh_token returned the token of a response,
\* and the provider holds it with the new times
C19_Witness ==
  /\ out.op = "refresh_token" /\ issued > 0 /\ out.val = ServerToken(issued)
  /\ now > StartTime
  /\ current_token[ProviderOf(out.m)] = out.val
  /\ last_refresh_timestamp[ProviderOf(out.m)] = now
  /\ token_expiry_time[ProviderOf(out.m)] = now + expiry_time
  /\ refresh_failure_count[ProviderOf(out.m)] = 0

\* C20: the provider's token becomes the backup token only in a step after
\* which the failures in a row have reached
\* refresh_failure_attempts_threshold, with auto_switch_backup_on_failure
\* set and a backup token configured; with the policy off the provider's
\* token is never the backup token
C20_BackupOnlyWhenDue ==
  /\ [](\A p \in Providers :
          (Truthy(config.backup_token) /\ current_token[p] = config.backup_token) =>
            config.auto_switch_backup_on_failure)
  /\ [][\A p \in Providers :
          (/\ current_token'[p] # current_token[p]
           /\ current_token'[p] = config.backup_token
           /\ constructed' = constructed) =>
             /\ consecutive_failures'[p] >= refresh_failure_attempts_threshold
             /\ config.auto_switch_backup_on_failure
             /\ Truthy(config.backup_token)]_vars

\* a backup token is configured, the policy is off, the refreshes of the
\* pool's provider have failed threshold times in a row, and its token is not
\* the backup token
C20_Witness ==
  /\ config.backup_token = "bak" /\ ~config.auto_switch_backup_on_failure
  /\ consecutive_failures[PoolProvider] >= refresh_failure_attempts_threshold
  /\ current_token[PoolProvider] # config.backup_token

\* C21: when _async_refresh_token is entered, by refresh_token or again
\* after a failed attempt, while the provider's token is valid, no POST
\* leaves, the provider's token, expiry time, refresh timestamp and failure
\* count stay as they are, and the call ends with the live token
C21_ShortCircuit ==
  [][\A c \in CallIds :
       LET m == c[2]
           p == ProviderOf(m)
           entered ==
             \/ ErrorResponse(c) /\ call[c].depth < MaxRecursionDepth
             \/ /\ c[1] = "man" /\ call[c].pc = "idle"
                /\ out'.op = "refresh_token" /\ out'.m = m
       IN /\ (TokenValid(p) /\ call[c].pc = "idle") => call'[c].pc = "idle"
          /\ (TokenValid(p) /\ entered) =>
            /\ call'[c].pc = "idle"
            /\ UNCHANGED <<provVars, issued>>
            /\ c[1] \in {"get", "man"} => out'.val = current_token[p]
            /\ c[1] = "bg" => cached_current_token'[m] = current_token[p]]_vars

\* two refreshes of one provider were in flight; one brought a token, the
\* other failed afterwards, and refresh_token returned the live token
\* without another POST
C21_Witness ==
  /\ out.op = "refresh_token" /\ out.val = ServerToken(1) /\ issued = 1
  /\ consecutive_failures[ProviderOf(out.m)] = 1
  /\ current_token[ProviderOf(out.m)] = out.val
  /\ call[<<"man", out.m>>].pc = "idle"

\* C22: a get_token that returns while the provider reports the token
\* expired has run the provider's refresh: it does not hand out the result
\* of an earlier call
C22_NoStaleMemo ==
  (out.op = "get_token" /\ ProviderIsTokenExpired(ProviderOf(out.m))) =>
    out.path # "lru_cache"

\* C23: the signature a POST carries is the hash of the current_token the
\* same POST carries
C23_SignatureOfCarriedToken ==
  [][\A c \in CallIds :
       Posted(c) =>
         signature_cache'[ProviderOf(c[2])] = SHA256(current_token'[ProviderOf(c[2])])]_vars

\* C24: no call of _async_refresh_token ends with an exception: a failed
\* attempt is followed by another attempt, and the call ends with a token
C24_NeverPropagates ==
  [][\A c \in CallIds : ErrorResponse(c) => ~RefreshRaised(c)]_vars

\* C25: the polling task of a manager is never ended by a failed refresh,
\* and with the endpoint recovering after its failures an expired token of
\* a manager is refreshed in the end
C25_PollingSurvivesFailure ==
  /\ [](\A m \in Managers : call[<<"bg", m>>].pc \in {"idle", "inflight"})
  /\ \A m \in Managers : (m \in constructed /\ IsTokenExpired(m)) ~> ~IsTokenExpired(m)

\* no get_token was ever made, the refresh of a round of the polling task
\* has raised after failures in a row, and the task is in its next round
\* with a new POST
C25_Witness ==
  /\ \A m \in Managers : get_token_cache[m] = Unset /\ call[<<"get", m>>].pc = "idle"
  /\ call[<<"bg", 1>>] = [pc |-> "inflight", depth |-> 0]
  /\ consecutive_failures[PoolProvider] > MaxRecursionDepth
  /\ IsTokenExpired(1)

\* C26: the polling task posts a refresh only in a round in which
\* is_token_expired() is true, and in such a round it does; the step in
\* which its refresh brings a token puts that token into the manager's
\* cache and ends the round; a step of the task on an unexpired token
\* changes neither the cache nor the provider
C26_TickRefreshesIffExpired ==
  [][\A m \in Managers :
       LET c == <<"bg", m>>
       IN /\ (call[c].pc = "idle" /\ call'[c].pc # "idle") => IsTokenExpired(m)
          /\ (call[c].pc = "idle" /\ call'[c].pc # "idle") =>
               call'[c] = [pc |-> "inflight", depth |-> 0]
          /\ TokenResponse(c) =>
               /\ cached_current_token'[m] = ServerToken(issued')
               /\ cached_current_token'[m] = current_token'[ProviderOf(m)]
          /\ (~IsTokenExpired(m) /\ call[c].pc = "idle" /\ out'.op = "none"
                /\ ops' = ops /\ now' = now /\ call' = call) =>
               UNCHANGED <<cached_current_token, get_token_cache, provVars>>]_vars

\* the pool's manager never ran get_token, and its cache holds the token
\* the endpoint issued last: its polling task put it there
C26_Witness ==
  /\ get_token_cache[1] = Unset /\ call[<<"get", 1>>].pc = "idle"
  /\ issued > 0 /\ cached_current_token[1] = ServerToken(issued)
  /\ ~IsTokenExpired(1)
  /\ ForeignManager \notin constructed

\* C27: a manager that serves the backup token leaves that state with the
\* next successful primary refresh: get_token answers with the backup
\* token only while the last refresh of the manager's provider has failed
C27_BackupLeftOnSuccess ==
  [][\A m \in Managers :
       (/\ out'.op = "get_token" /\ out'.m = m
        /\ out' # out \/ ops' # ops
        /\ Truthy(ManagerBackupToken(m))
        /\ out'.val = ManagerBackupToken(m))
       => consecutive_failures'[ProviderOf(m)] > 0]_vars

\* C28: the step in which a manual refresh of a manager brings a token
\* leaves that token in the manager's cache
C28_ManualRefreshUpdatesCache ==
  [][\A m \in Managers :
       TokenResponse(<<"man", m>>) => cached_current_token'[m] = ServerToken(issued')]_vars

\* C29: the pool's retry counter never exceeds max_retry
C29_RetryCountBounded ==
  retry_count <= max_retry

====
